---- MODULE Spec2Model ----
(***************************************************************************)
(* Eco-Coach AI: the waste-classification and CO2-estimation pipeline of   *)
(* src/app.py (CO2_IMPACT_MAP, get_ai_waste_analysis and                   *)
(* get_mock_ai_response).                                                  *)
(*                                                                         *)
(* Representation                                                          *)
(*   text       a sequence of strings; item names, categories and keywords *)
(*              are spelled one character per element, so that lower() and *)
(*              the substring test `in` are computed on characters         *)
(*   quantity   in halves            (1 is 0.5, 2 is 1.0, 4 is 2.0 ...)     *)
(*   weight     in hundredths of a kilogram      (20 is 0.2 kg)            *)
(*   rate       in tenths of kg CO2 per kg       (9 is 0.9)                *)
(*   co2_saved  in hundredths of a kilogram CO2  (120 is 1.2)              *)
(***************************************************************************)
EXTENDS Integers, Sequences, FiniteSets, TLC

VARIABLES pc, api_key, item_name, quantity, posts, response, co2_rate, result, path

vars == <<pc, api_key, item_name, quantity, posts, response, co2_rate, result, path>>

\* Largest whole quantity a caller logs.
MaxQty == 3

(***************************************************************************)
(* Text                                                                    *)
(***************************************************************************)
UpperCase == <<"A","B","C","D","E","F","G","H","I","J","K","L","M",
               "N","O","P","Q","R","S","T","U","V","W","X","Y","Z">>

LowerCase == <<"a","b","c","d","e","f","g","h","i","j","k","l","m",
               "n","o","p","q","r","s","t","u","v","w","x","y","z">>

LowerChar(c) ==
    IF \E i \in 1..26 : UpperCase[i] = c
    THEN LowerCase[CHOOSE i \in 1..26 : UpperCase[i] = c]
    ELSE c

\* str.lower()
Lower(s) == [i \in 1..Len(s) |-> LowerChar(s[i])]

\* Python's  k in s  for two texts
Contains(s, k) ==
    \E i \in 0..(Len(s) - Len(k)) : SubSeq(s, i + 1, i + Len(k)) = k

\* any(word in s for word in words)
AnyIn(words, s) == \E j \in 1..Len(words) : Contains(s, words[j])

(***************************************************************************)
(* JSON values carried by a reply, and the values of a result record.      *)
(* t is the JSON type ("absent" for a key the object does not have), s the *)
(* text of a string, n the value of a number.                              *)
(***************************************************************************)
Absent == [t |-> "absent", s |-> <<>>, n |-> 0]
Null   == [t |-> "null",   s |-> <<>>, n |-> 0]
Num(n) == [t |-> "number", s |-> <<>>, n |-> n]
Str(s) == [t |-> "string", s |-> s,    n |-> 0]

\* dict.get(key, default)
DictGet(v, default) == IF v.t = "absent" THEN default ELSE v

(***************************************************************************)
(* CO2 IMPACT MAP, in declaration order.  bias is the sign of the error of *)
(* the binary double that holds the rate (0.5, 1.5, 2.0, 9.0, 5.0 and 3.0  *)
(* are exact; 0.3 is stored slightly below, 0.9 slightly above, ...).      *)
(***************************************************************************)
CO2_IMPACT_MAP == <<
    [key |-> <<"f","o","o","d">>,                             rate |-> 5,  bias |-> 0],
    [key |-> <<"v","e","g","e","t","a","b","l","e","s">>,     rate |-> 3,  bias |-> -1],
    [key |-> <<"f","r","u","i","t">>,                         rate |-> 3,  bias |-> -1],
    [key |-> <<"m","e","a","t">>,                             rate |-> 15, bias |-> 0],
    [key |-> <<"d","a","i","r","y">>,                         rate |-> 8,  bias |-> 1],
    [key |-> <<"b","r","e","a","d">>,                         rate |-> 4,  bias |-> 1],
    [key |-> <<"p","l","a","s","t","i","c">>,                 rate |-> 20, bias |-> 0],
    [key |-> <<"p","a","p","e","r">>,                         rate |-> 9,  bias |-> 1],
    [key |-> <<"c","a","r","d","b","o","a","r","d">>,         rate |-> 7,  bias |-> -1],
    [key |-> <<"g","l","a","s","s">>,                         rate |-> 3,  bias |-> -1],
    [key |-> <<"a","l","u","m","i","n","u","m">>,             rate |-> 90, bias |-> 0],
    [key |-> <<"s","t","e","e","l">>,                         rate |-> 17, bias |-> -1],
    [key |-> <<"e","l","e","c","t","r","o","n","i","c","s">>, rate |-> 50, bias |-> 0],
    [key |-> <<"b","a","t","t","e","r","i","e","s">>,         rate |-> 30, bias |-> 0],
    [key |-> <<"d","e","f","a","u","l","t">>,                 rate |-> 5,  bias |-> 0] >>

\* CO2_IMPACT_MAP['default']
DefaultEntry == CO2_IMPACT_MAP[Len(CO2_IMPACT_MAP)]

\* CO2_IMPACT_MAP.get(category, fallback): the entry keyed exactly by category
MapGet(category, fallback) ==
    IF \E i \in 1..Len(CO2_IMPACT_MAP) : CO2_IMPACT_MAP[i].key = category
    THEN CO2_IMPACT_MAP[CHOOSE i \in 1..Len(CO2_IMPACT_MAP) : CO2_IMPACT_MAP[i].key = category]
    ELSE fallback

(***************************************************************************)
(* round(x, 2) of the product weight * quantity * rate.  x is n/20         *)
(* hundredths (n = hundredths of kg * halves * tenths).  Python rounds the *)
(* stored double to the nearest hundredth and a double that is exactly     *)
(* half way goes to the even neighbour.  A decimal tie n/20 = k + 1/2 is   *)
(* such a double only when the product is exact (bias 0); otherwise the    *)
(* double lies on the side its error puts it.                              *)
(***************************************************************************)
Round2(n, bias) ==
    LET q == n \div 20
        r == n % 20
    IN  IF r < 10 THEN q
        ELSE IF r > 10 THEN q + 1
        ELSE IF bias > 0 THEN q + 1
        ELSE IF bias < 0 THEN q
        ELSE IF q % 2 = 0 THEN q ELSE q + 1

(***************************************************************************)
(* Heuristic classifier (fallback path)                                    *)
(***************************************************************************)
FoodWords == << <<"f","o","o","d">>, <<"m","e","a","t">>,
                <<"v","e","g","e","t","a","b","l","e">>, <<"f","r","u","i","t">>,
                <<"b","r","e","a","d">>, <<"d","a","i","r","y">> >>

PlasticWords == << <<"p","l","a","s","t","i","c">>, <<"b","o","t","t","l","e">>,
                   <<"c","o","n","t","a","i","n","e","r">> >>

PaperWords == << <<"p","a","p","e","r">>, <<"c","a","r","d","b","o","a","r","d">>,
                 <<"b","o","x">> >>

HazardWords == << <<"b","a","t","t","e","r","y">>,
                  <<"e","l","e","c","t","r","o","n","i","c">> >>

CatFood       == <<"f","o","o","d">>
CatRecyclable == <<"r","e","c","y","c","l","a","b","l","e">>
CatHazardous  == <<"h","a","z","a","r","d","o","u","s">>
CatOther      == <<"o","t","h","e","r">>

\* The 0.5 kg a unit is assumed to weigh on the fallback path, in hundredths.
MockUnitWeight == 50

\* The literal 0.5 of CO2_IMPACT_MAP.get(category, 0.5)
MockDefaultRate == [key |-> <<>>, rate |-> 5, bias |-> 0]

\* The chain with the plastic group tested before the food group.
MockBranchPlasticFirst(item) ==
    LET item_lower == Lower(item)
    IN  IF AnyIn(PlasticWords, item_lower) THEN
            [category    |-> CatRecyclable,
             instruction |-> <<"Rinse ">> \o item
                             \o <<", remove labels, place in recycling bin.">>,
             tip         |-> <<"Use reusable alternatives instead of ">> \o item \o <<".">>]
        ELSE IF AnyIn(FoodWords, item_lower) THEN
            [category    |-> CatFood,
             instruction |-> <<"Compost ">> \o item
                             \o <<" if possible. Otherwise, dispose in food waste bin.">>,
             tip         |-> <<"Plan meals to reduce ">> \o item \o <<" waste.">>]
        ELSE IF AnyIn(PaperWords, item_lower) THEN
            [category    |-> CatRecyclable,
             instruction |-> <<"Flatten ">> \o item
                             \o <<" and recycle paper components.">>,
             tip         |-> <<"Go digital to reduce paper waste.">>]
        ELSE IF AnyIn(HazardWords, item_lower) THEN
            [category    |-> CatHazardous,
             instruction |-> <<"Take ">> \o item
                             \o <<" to hazardous waste collection center.">>,
             tip         |-> <<"Use rechargeable alternatives.">>]
        ELSE
            [category    |-> CatOther,
             instruction |-> <<"Dispose of ">> \o item \o <<" in regular waste.">>,
             tip         |-> <<"Check if it can be reused, donated, or repaired.">>]

\* The if/elif chain: the branch taken for an item name.
MockBranch(item) ==
    LET item_lower == Lower(item)
    IN  IF AnyIn(FoodWords, item_lower) THEN
            [category    |-> CatFood,
             instruction |-> <<"Compost ">> \o item
                             \o <<" if possible. Otherwise, dispose in food waste bin.">>,
             tip         |-> <<"Plan meals to reduce ">> \o item \o <<" waste.">>]
        ELSE IF AnyIn(PlasticWords, item_lower) THEN
            [category    |-> CatRecyclable,
             instruction |-> <<"Rinse ">> \o item
                             \o <<", remove labels, place in recycling bin.">>,
             tip         |-> <<"Use reusable alternatives instead of ">> \o item \o <<".">>]
        ELSE IF AnyIn(PaperWords, item_lower) THEN
            [category    |-> CatRecyclable,
             instruction |-> <<"Flatten ">> \o item
                             \o <<" and recycle paper components.">>,
             tip         |-> <<"Go digital to reduce paper waste.">>]
        ELSE IF AnyIn(HazardWords, item_lower) THEN
            [category    |-> CatHazardous,
             instruction |-> <<"Take ">> \o item
                             \o <<" to hazardous waste collection center.">>,
             tip         |-> <<"Use rechargeable alternatives.">>]
        ELSE
            [category    |-> CatOther,
             instruction |-> <<"Dispose of ">> \o item \o <<" in regular waste.">>,
             tip         |-> <<"Check if it can be reused, donated, or repaired.">>]

\* co2_rate = CO2_IMPACT_MAP.get(category, 0.5)
MockRate(item) == MapGet(MockBranch(item).category, MockDefaultRate)

\* The classifier with the 0.5 kg per unit left out of the product.
get_mock_ai_response_NoUnitWeight(item, qty) ==
    LET b     == MockBranch(item)
        entry == MockRate(item)
    IN  [category             |-> Str(b.category),
         disposal_instruction |-> Str(b.instruction),
         tip                  |-> Str(b.tip),
         co2_saved            |-> Round2(qty * 100 * entry.rate, entry.bias)]

get_mock_ai_response(item, qty) ==
    LET b     == MockBranch(item)
        entry == MockRate(item)
    IN  [category             |-> Str(b.category),
         disposal_instruction |-> Str(b.instruction),
         tip                  |-> Str(b.tip),
         co2_saved            |-> Round2(qty * MockUnitWeight * entry.rate, entry.bias)]

(***************************************************************************)
(* CO2 estimator: the code after the try block of get_ai_waste_analysis    *)
(***************************************************************************)
\* A parsed reply.  t is the type of the JSON document; the four members
\* are Absent unless the document is an object that has them.
JsonDoc(t, c, d, p, w) ==
    [t |-> t, category |-> c, disposal_instruction |-> d, tip |-> p,
     estimated_weight_kg |-> w]

\* The default of ai_data.get('estimated_weight_kg', 0.5), in hundredths.
DefaultWeight == 50

\* for key in CO2_IMPACT_MAP: if key in item_name.lower() or key in category.lower(): ... break
RECURSIVE ScanKeys(_, _, _, _)
ScanKeys(i, item_lower, category, entry) ==
    IF i > Len(CO2_IMPACT_MAP) THEN entry
    ELSE IF \/ Contains(item_lower, CO2_IMPACT_MAP[i].key)
            \/ Contains(Lower(category), CO2_IMPACT_MAP[i].key)
         THEN CO2_IMPACT_MAP[i]
         ELSE ScanKeys(i + 1, item_lower, category, entry)

\* The scan done on the item name over every key before the category is
\* looked at.
Co2RateItemFirst(item, category) ==
    ScanKeys(1, Lower(item), <<>>,
             ScanKeys(1, <<>>, category, MapGet(category, DefaultEntry)))

\* co2_rate after the loop, for the lowercased category of the reply
Co2Rate(item, category) ==
    ScanKeys(1, Lower(item), category, MapGet(category, DefaultEntry))

\* The weight of one unit only.
WeightOfOneUnit(ai_data, qty) ==
    DictGet(ai_data.estimated_weight_kg, Num(DefaultWeight)).n * 2

\* weight = ai_data.get('estimated_weight_kg', 0.5) * quantity, in
\* hundredths of a kilogram times halves
Weight(ai_data, qty) ==
    DictGet(ai_data.estimated_weight_kg, Num(DefaultWeight)).n * qty

\* The category text the result carries: ai_data.get('category', 'other')
ReturnedCategory(ai_data) == DictGet(ai_data.category, Str(CatOther))

\* Lines 152-166.  raised is TRUE when a statement throws: .get on a
\* document that is not an object, .lower() on a category that is not a
\* string, or the product of a weight that is not a number.
Estimate(ai_data, item, qty) ==
    LET c == DictGet(ai_data.category, Str(<<"d","e","f","a","u","l","t">>))
        w == DictGet(ai_data.estimated_weight_kg, Num(DefaultWeight))
        entry == Co2Rate(item, Lower(c.s))
    IN  IF ai_data.t # "object" \/ c.t # "string" \/ w.t # "number"
        THEN [raised |-> TRUE, co2_rate |-> 0,
              result |-> [category |-> Absent, disposal_instruction |-> Absent,
                          tip |-> Absent, co2_saved |-> 0]]
        ELSE [raised |-> FALSE, co2_rate |-> entry.rate,
              result |-> [category |-> ReturnedCategory(ai_data),
                          disposal_instruction |->
                              DictGet(ai_data.disposal_instruction,
                                      Str(<<"Please recycle responsibly.">>)),
                          tip |-> DictGet(ai_data.tip, Str(<<"Reduce, reuse, recycle.">>)),
                          co2_saved |-> Round2(Weight(ai_data, qty) * entry.rate, entry.bias)]]

(***************************************************************************)
(* Remote advisor client: the reply and the try block                      *)
(***************************************************************************)
NoDoc == JsonDoc("none", Absent, Absent, Absent, Absent)

\* The message content is a sequence of lines.  A line is a code-fence
\* marker (it starts with three backticks), the i-th of the n lines of the
\* JSON text of a document, or prose.  A fence line that carries a document
\* is the one-line form  fence JSON fence  with no newline in it.
FenceLine       == [k |-> "fence", doc |-> NoDoc, i |-> 0, n |-> 0]
TextLine        == [k |-> "text",  doc |-> NoDoc, i |-> 0, n |-> 0]
DocLine(d, i, n) == [k |-> "doc",  doc |-> d, i |-> i, n |-> n]
InlineFenced(d) == [k |-> "fence", doc |-> d, i |-> 1, n |-> 1]

\* The JSON text of document d, on n lines
JsonText(d, n) == [i \in 1..n |-> DocLine(d, i, n)]

\* J wrapped in a leading and a trailing fence line
Fenced(text) == <<FenceLine>> \o text \o <<FenceLine>>

\* ai_content.startswith(three backticks)
StartsWithFence(content) == Len(content) > 0 /\ content[1].k = "fence"

\* Only the opening fence line dropped: lines[1:]
StripFenceOpeningOnly(content) ==
    IF StartsWithFence(content)
    THEN SubSeq(content, 2, Len(content))
    ELSE content

\* lines = ai_content.split('\n'); ai_content = '\n'.join(lines[1:-1])
StripFence(content) ==
    IF StartsWithFence(content)
    THEN SubSeq(content, 2, Len(content) - 1)
    ELSE content

\* json.loads: succeeds exactly on the complete text of one document
JsonLoads(text) ==
    IF /\ Len(text) > 0
       /\ \A i \in 1..Len(text) : text[i] = DocLine(text[1].doc, i, Len(text))
    THEN [ok |-> TRUE, doc |-> text[1].doc]
    ELSE [ok |-> FALSE, doc |-> NoDoc]

\* What the POST comes back with.  kind "ok" is a 2xx reply whose body has
\* choices[0].message.content; the other kinds throw inside the try block:
\* requests.post (timeout, connection_error), raise_for_status (http_error),
\* response.json() (body_not_json), the subscripts or .strip() (bad_shape).
FailureKinds == {"timeout", "connection_error", "http_error", "body_not_json", "bad_shape"}

Reply(kind, content) == [kind |-> kind, content |-> content]
NoResponse == Reply("none", <<>>)

\* A parse error answered with an empty object instead of the except clause.
AttemptOutcomeEmptyOnParseError(r) ==
    LET parsed == JsonLoads(StripFence(r.content))
    IN  IF r.kind = "ok"
        THEN [failed |-> FALSE,
              ai_data |-> IF parsed.ok THEN parsed.doc
                          ELSE JsonDoc("object", Absent, Absent, Absent, Absent)]
        ELSE [failed |-> TRUE,  ai_data |-> NoDoc]

\* Lines 141-150: ai_data when the try block completes, failed when the
\* except clause is entered.
AttemptOutcome(r) ==
    LET parsed == JsonLoads(StripFence(r.content))
    IN  IF r.kind = "ok" /\ parsed.ok
        THEN [failed |-> FALSE, ai_data |-> parsed.doc]
        ELSE [failed |-> TRUE,  ai_data |-> NoDoc]

\* os.environ.get('BYTEZ_API_KEY'): unset (None), set to the empty string,
\* or set to a key.
ApiKeys == {[set |-> FALSE, value |-> ""], [set |-> TRUE, value |-> ""],
            [set |-> TRUE, value |-> "sk-key"]}

\* The test  api_key is not None
CredentialConfiguredIfSet(k) == k.set

\* The negation of  if not api_key
CredentialConfigured(k) == k.set /\ k.value # ""

\* requests.post is called once
IssuePost(n) == n + 1

(***************************************************************************)
(* Inputs                                                                  *)
(***************************************************************************)
ItemNames == { <<"b","a","n","a","n","a"," ","p","e","e","l">>,
               <<"o","l","d"," ","n","e","w","s","p","a","p","e","r">>,
               <<"w","a","t","e","r"," ","b","o","t","t","l","e">>,
               <<"P","l","a","s","t","i","c"," ","f","o","o","d"," ","b","o","x">>,
               <<"b","a","t","t","e","r","y"," ","p","a","c","k">>,
               <<"g","l","a","s","s"," ","j","a","r">> }

\* 0.5 and the whole quantities 1..MaxQty, in halves
Quantities == {1} \cup {2 * k : k \in 1..MaxQty}

ReplyCategories == {Absent, Null, Num(7), Str(<<>>),
                    Str(<<"P","l","a","s","t","i","c">>),
                    Str(<<"O","r","g","a","n","i","c">>),
                    Str(<<"G","l","a","s","s">>)}

ReplyWeights == {Absent, Null, Str(<<"heavy">>), Num(20), Num(36), Num(0), Num(-20)}

ReplyInstructions == {Absent, Null, Str(<<"Rinse it and put it in the recycling bin.">>)}

ReplyTips == {Absent, Null, Str(<<"Buy in bulk.">>)}

Docs ==
    {JsonDoc("object", c, d, p, w) :
        c \in ReplyCategories, d \in ReplyInstructions, p \in ReplyTips, w \in ReplyWeights}
    \cup {JsonDoc(t, Absent, Absent, Absent, Absent) : t \in {"array", "null", "number", "string"}}

\* Documents whose text is also sent in the remaining layouts
SampleDocs ==
    {JsonDoc("object", Str(<<"P","l","a","s","t","i","c">>),
             Str(<<"Rinse it and put it in the recycling bin.">>),
             Str(<<"Buy in bulk.">>), Num(20)),
     JsonDoc("object", Absent, Null, Absent, Num(36)),
     JsonDoc("array", Absent, Absent, Absent, Absent)}

\* Every document arrives as bare one-line JSON and as a fenced two-line
\* block; the sample documents also as bare two-line JSON, as a fenced
\* one-line block, with the closing fence missing, fenced on a single line,
\* and as a fenced block after a line of prose.
Contents ==
    UNION {{JsonText(d, 1), Fenced(JsonText(d, 2))} : d \in Docs}
    \cup UNION {{JsonText(d, 2), Fenced(JsonText(d, 1)),
                 <<FenceLine>> \o JsonText(d, 2),
                 <<InlineFenced(d)>>,
                 <<TextLine>> \o Fenced(JsonText(d, 1))} : d \in SampleDocs}
    \cup {<<TextLine>>}

Responses ==
    {Reply(k, <<>>) : k \in FailureKinds} \cup {Reply("ok", c) : c \in Contents}

(***************************************************************************)
(* The facade as a state machine                                           *)
(***************************************************************************)
NoResult == [category |-> Absent, disposal_instruction |-> Absent,
             tip |-> Absent, co2_saved |-> 0]

Init ==
    /\ pc = "idle"
    /\ api_key \in ApiKeys
    /\ item_name = <<>>
    /\ quantity = 0
    /\ posts = 0
    /\ response = NoResponse
    /\ co2_rate = 0
    /\ result = NoResult
    /\ path = <<>>

\* The deployment sets or clears BYTEZ_API_KEY between requests.
SetEnv(k) ==
    /\ pc = "idle"
    /\ api_key # k
    /\ api_key' = k
    /\ UNCHANGED <<pc, item_name, quantity, posts, response, co2_rate, result, path>>

\* log_waste calls get_ai_waste_analysis(item_name, quantity)
Invoke(item, qty) ==
    /\ pc = "idle"
    /\ pc' = "ATTEMPT_REMOTE"
    /\ item_name' = item
    /\ quantity' = qty
    /\ posts' = 0
    /\ response' = NoResponse
    /\ co2_rate' = 0
    /\ result' = NoResult
    /\ path' = <<"ATTEMPT_REMOTE">>
    /\ UNCHANGED api_key

\* if not api_key: return get_mock_ai_response(...)
NoCredential ==
    /\ pc = "ATTEMPT_REMOTE"
    /\ ~CredentialConfigured(api_key)
    /\ pc' = "FALLBACK_HEURISTIC"
    /\ path' = Append(path, "FALLBACK_HEURISTIC")
    /\ UNCHANGED <<api_key, item_name, quantity, posts, response, co2_rate, result>>

\* The try block throws: except Exception
RemoteFailure(r) ==
    /\ pc = "ATTEMPT_REMOTE"
    /\ CredentialConfigured(api_key)
    /\ AttemptOutcome(r).failed
    /\ posts' = IssuePost(posts)
    /\ response' = r
    /\ pc' = "FALLBACK_HEURISTIC"
    /\ path' = Append(path, "FALLBACK_HEURISTIC")
    /\ UNCHANGED <<api_key, item_name, quantity, co2_rate, result>>

\* The try block completes and lines 152-166 return the record
RemoteSuccess(r) ==
    LET e == Estimate(AttemptOutcome(r).ai_data, item_name, quantity)
    IN  /\ pc = "ATTEMPT_REMOTE"
        /\ CredentialConfigured(api_key)
        /\ ~AttemptOutcome(r).failed
        /\ ~e.raised
        /\ posts' = IssuePost(posts)
        /\ response' = r
        /\ co2_rate' = e.co2_rate
        /\ result' = e.result
        /\ pc' = "DONE"
        /\ path' = Append(path, "DONE")
        /\ UNCHANGED <<api_key, item_name, quantity>>

\* The try block completes and a statement of lines 152-159 throws
RemoteRaises(r) ==
    LET e == Estimate(AttemptOutcome(r).ai_data, item_name, quantity)
    IN  /\ pc = "ATTEMPT_REMOTE"
        /\ CredentialConfigured(api_key)
        /\ ~AttemptOutcome(r).failed
        /\ e.raised
        /\ posts' = IssuePost(posts)
        /\ response' = r
        /\ pc' = "RAISED"
        /\ path' = Append(path, "RAISED")
        /\ UNCHANGED <<api_key, item_name, quantity, co2_rate, result>>

\* return get_mock_ai_response(item_name, quantity)
FallbackHeuristic ==
    /\ pc = "FALLBACK_HEURISTIC"
    /\ co2_rate' = MockRate(item_name).rate
    /\ result' = get_mock_ai_response(item_name, quantity)
    /\ pc' = "DONE"
    /\ path' = Append(path, "DONE")
    /\ UNCHANGED <<api_key, item_name, quantity, posts, response>>

\* The caller takes the record (or the exception) and the request ends
Return ==
    /\ pc \in {"DONE", "RAISED"}
    /\ pc' = "idle"
    /\ item_name' = <<>>
    /\ quantity' = 0
    /\ posts' = 0
    /\ response' = NoResponse
    /\ co2_rate' = 0
    /\ result' = NoResult
    /\ path' = <<>>
    /\ UNCHANGED api_key

Next ==
    \/ \E k \in ApiKeys : SetEnv(k)
    \/ \E item \in ItemNames, qty \in Quantities : Invoke(item, qty)
    \/ NoCredential
    \/ \E r \in Responses : RemoteFailure(r)
    \/ \E r \in Responses : RemoteSuccess(r)
    \/ \E r \in Responses : RemoteRaises(r)
    \/ FallbackHeuristic
    \/ Return

Spec == Init /\ [][Next]_vars

(***************************************************************************)
(* Properties                                                              *)
(***************************************************************************)
BananaPeel   == <<"b","a","n","a","n","a"," ","p","e","e","l">>
OldNewspaper == <<"o","l","d"," ","n","e","w","s","p","a","p","e","r">>
WaterBottle  == <<"w","a","t","e","r"," ","b","o","t","t","l","e">>
PlasticFoodBox == <<"P","l","a","s","t","i","c"," ","f","o","o","d"," ","b","o","x">>

RemotePath   == <<"ATTEMPT_REMOTE", "DONE">>
FallbackPath == <<"ATTEMPT_REMOTE", "FALLBACK_HEURISTIC", "DONE">>

\* The reply content is JSON text between an opening and a closing fence line
IsFencedJson(content) ==
    /\ Len(content) >= 3
    /\ content[1] = FenceLine
    /\ content[Len(content)] = FenceLine
    /\ JsonLoads([i \in 1..(Len(content) - 2) |-> content[i + 1]]).ok

\* The document of a reply: the JSON between the fences, or the bare JSON
ReplyDoc(content) ==
    IF IsFencedJson(content)
    THEN JsonLoads([i \in 1..(Len(content) - 2) |-> content[i + 1]]).doc
    ELSE JsonLoads(content).doc

\* The remote attempt failed: no credential, a transport or HTTP error, a
\* reply without the message content, or content that is not valid JSON
RemoteAttemptFailed ==
    \/ api_key.value = ""
    \/ response.kind \in FailureKinds
    \/ response.kind = "ok" /\ ~JsonLoads(StripFence(response.content)).ok

\* The keys of the Impact Table contained in the lowercased item name or in
\* the lowercased category text
MatchingKeys(item, category) ==
    {i \in 1..Len(CO2_IMPACT_MAP) :
        \/ Contains(Lower(item), CO2_IMPACT_MAP[i].key)
        \/ Contains(Lower(category), CO2_IMPACT_MAP[i].key)}

FirstMatchRate(item, category) ==
    LET m == MatchingKeys(item, category)
    IN  IF m = {} THEN 5
        ELSE CO2_IMPACT_MAP[CHOOSE i \in m : \A j \in m : i <= j].rate

\* The category the ordered keyword groups give an item name
GroupCategory(item) ==
    LET l == Lower(item)
    IN  IF AnyIn(FoodWords, l) THEN CatFood
        ELSE IF AnyIn(PlasticWords, l) \/ AnyIn(PaperWords, l) THEN CatRecyclable
        ELSE IF AnyIn(HazardWords, l) THEN CatHazardous
        ELSE CatOther

\* The coefficient the Impact Table has for a category, 0.5 when it has none
CategoryCoefficient(category) ==
    IF \E i \in 1..Len(CO2_IMPACT_MAP) : CO2_IMPACT_MAP[i].key = category
    THEN CO2_IMPACT_MAP[CHOOSE i \in 1..Len(CO2_IMPACT_MAP) :
                            CO2_IMPACT_MAP[i].key = category].rate
    ELSE 5

\* c (hundredths) is a hundredth nearest to n/20 hundredths
IsRounded(c, n) == (20 * c - n) \in -10..10

\* C1: get_ai_waste_analysis never propagates an error to its caller,
\* whatever the remote call returns.
C1_NeverRaises == pc # "RAISED"

\* C2: for every quantity > 0 the returned result has co2_saved >= 0 and a
\* non-empty category, on the remote path and on the fallback path.
C2_NonNegativeNonEmpty ==
    (pc = "DONE" /\ quantity > 0) =>
        /\ result.co2_saved >= 0
        /\ result.category.t = "string"
        /\ result.category.s # <<>>

\* C3: every returned result is fully populated: category,
\* disposal_instruction and tip hold text and co2_saved a number, whichever
\* fields the reply omits or sets to null.
C3_FullyPopulated ==
    pc = "DONE" =>
        /\ result.category.t = "string"
        /\ result.disposal_instruction.t = "string"
        /\ result.tip.t = "string"
        /\ result.co2_saved \in Int

\* C4: whenever the remote attempt fails (no credential, transport error,
\* non-success status, missing message content, invalid JSON) the facade
\* goes ATTEMPT_REMOTE -> FALLBACK_HEURISTIC -> DONE and returns exactly
\* get_mock_ai_response(item_name, quantity).
C4_FailureFallsBack ==
    (pc \notin {"idle", "ATTEMPT_REMOTE"} /\ RemoteAttemptFailed) =>
        /\ path \in {SubSeq(FallbackPath, 1, 2), FallbackPath}
        /\ pc = path[Len(path)]
        /\ pc = "DONE" => result = get_mock_ai_response(item_name, quantity)

C4_Witness ==
    /\ pc = "DONE"
    /\ response.kind = "ok"
    /\ StartsWithFence(response.content)
    /\ ~JsonLoads(StripFence(response.content)).ok
    /\ result = get_mock_ai_response(item_name, quantity)

\* C5: an invocation issues at most one POST and never retries; none when
\* no credential is configured, exactly one before DONE when one is.
C5_SinglePost ==
    /\ posts <= 1
    /\ api_key.value = "" => posts = 0
    /\ (pc \in {"FALLBACK_HEURISTIC", "DONE", "RAISED"} /\ api_key.value # "") => posts = 1

C5_Witness ==
    /\ pc = "DONE"
    /\ path = FallbackPath
    /\ response.kind = "timeout"
    /\ posts = 1

\* C6 as stated: with no credential, "banana peel" with quantity 2 gives
\* category "food" and co2_saved 0.5.
C6_BananaPeelIsFood ==
    (pc = "DONE" /\ api_key.value = "" /\ item_name = BananaPeel /\ quantity = 4) =>
        /\ result.category = Str(CatFood)
        /\ result.co2_saved = 50

\* C6 amended: with no credential, "banana peel" with quantity 2 gives
\* category "other" and co2_saved 0.5.
C6_BananaPeelIsOther ==
    (pc = "DONE" /\ api_key.value = "" /\ item_name = BananaPeel /\ quantity = 4) =>
        /\ result.category = Str(CatOther)
        /\ result.co2_saved = 50

C6_Witness ==
    /\ pc = "DONE"
    /\ ~api_key.set
    /\ item_name = BananaPeel
    /\ quantity = 4
    /\ path = FallbackPath

\* C7: on remote success co2_saved = round(w * quantity * coefficient, 2)
\* with w the reply's estimated_weight_kg (0.5 when absent); for category
\* "Plastic", weight 0.2, quantity 3 and an item name without a table key,
\* the coefficient is 2.0, co2_saved is 1.2 and the category stays "Plastic".
C7_RemoteEstimate ==
    (pc = "DONE" /\ path = RemotePath) =>
        LET d == ReplyDoc(response.content)
            w == IF d.estimated_weight_kg.t = "absent" THEN 50
                 ELSE d.estimated_weight_kg.n
        IN  /\ IsRounded(result.co2_saved, w * quantity * co2_rate)
            /\ ( /\ d.category = Str(<<"P","l","a","s","t","i","c">>)
                 /\ d.estimated_weight_kg = Num(20)
                 /\ quantity = 6
                 /\ MatchingKeys(item_name, <<>>) = {} )
               => /\ co2_rate = 20
                  /\ result.co2_saved = 120
                  /\ result.category = Str(<<"P","l","a","s","t","i","c">>)

C7_Witness ==
    /\ pc = "DONE"
    /\ path = RemotePath
    /\ item_name = WaterBottle
    /\ quantity = 6
    /\ ReplyDoc(response.content).category = Str(<<"P","l","a","s","t","i","c">>)
    /\ ReplyDoc(response.content).estimated_weight_kg = Num(20)
    /\ result.co2_saved = 120

\* C8: on remote success the coefficient is that of the first table key, in
\* declaration order, contained in the lowercased item name or category, and
\* the default only when no key matches; "old newspaper" with a category
\* that has no earlier key gets the "paper" coefficient 0.9.
C8_FirstKeyWins ==
    (pc = "DONE" /\ path = RemotePath) =>
        LET c == ReplyDoc(response.content).category.s
        IN  /\ co2_rate = FirstMatchRate(item_name, c)
            /\ (item_name = OldNewspaper /\ \A i \in MatchingKeys(<<>>, c) : i >= 8)
               => co2_rate = 9

C8_Witness ==
    /\ pc = "DONE"
    /\ path = RemotePath
    /\ item_name = OldNewspaper
    /\ ReplyDoc(response.content).category = Str(<<"G","l","a","s","s">>)
    /\ co2_rate = 9

\* C9: a reply whose content is JSON text J between a leading and a
\* trailing fence line gives the same outcome as the content J unfenced.
C9_FencedAsUnfenced ==
    (response.kind = "ok" /\ IsFencedJson(response.content)) =>
        LET e == Estimate(ReplyDoc(response.content), item_name, quantity)
        IN  IF e.raised
            THEN pc = "RAISED"
            ELSE /\ pc = "DONE"
                 /\ path = RemotePath
                 /\ result = e.result

C9_Witness ==
    /\ pc = "DONE"
    /\ path = RemotePath
    /\ IsFencedJson(response.content)
    /\ Len(response.content) = 4
    /\ result.category = Str(<<"O","r","g","a","n","i","c">>)

\* C10: the heuristic classifier decides the category by the first matching
\* keyword group in the order food, plastic, paper, hazardous, other, and
\* its co2_saved is round(quantity * 0.5 * coefficient of the category, 2),
\* whatever the reply carried.
C10_HeuristicClassifier ==
    (pc = "DONE" /\ path = FallbackPath) =>
        /\ result.category = Str(GroupCategory(item_name))
        /\ IsRounded(result.co2_saved,
                     quantity * 50 * CategoryCoefficient(GroupCategory(item_name)))
        /\ result.disposal_instruction.t = "string"
        /\ result.tip.t = "string"

C10_Witness ==
    /\ pc = "DONE"
    /\ path = FallbackPath
    /\ item_name = PlasticFoodBox
    /\ result.category = Str(CatFood)
    /\ response.kind = "ok"

====
